---- MODULE Spec2Model ----
(***************************************************************************)
(* Model of src/draw.go: the Display pixel grid (initialize, drawPixel,    *)
(* getPixel, clearScreen, getMaxXY, screenShot's colour lookup) and the    *)
(* three filled shapes (Rectangle, Circle, Triangle) that paint through    *)
(* drawPixel.                                                              *)
(***************************************************************************)
EXTENDS Integers, Sequences, FiniteSets, TLC

(***************************************************************************)
(* Bounds of the model.                                                    *)
(***************************************************************************)
\* largest width and height passed to initialize
MaxDim == 5
\* largest radius of a Circle
MaxR == 2
\* calls made on the Display in one session (initialize included)
MaxSteps == 2

(***************************************************************************)
(* Color enumeration, draw.go:25-35 (iota: red = 0 ... white = 8).         *)
(***************************************************************************)
red == 0
black == 7
white == 8

\* the keys of colorMap, draw.go:42-52
colorMap == red .. white

(***************************************************************************)
(* float64, as interpolate uses it.  Every float64 that interpolate can    *)
(* hold for coordinates below 16 is a multiple of 2^-56 smaller than 16    *)
(* in magnitude (the slope a = (x1-x0)/(y1-y0) is 0 or at least 1/15 in    *)
(* magnitude, so its unit in the last place is at least 2^-56; d starts as *)
(* an integer and sums of multiples of 2^-56 are multiples of 2^-56).  A   *)
(* float is therefore held exactly as a sign and a 60-bit magnitude in     *)
(* units of 2^-56, the magnitude as three 20-bit limbs <<hi, mid, lo>>,    *)
(* and every operation rounds its exact result to 53 significant bits,     *)
(* ties to even, as IEEE 754 binary64 division and addition do.            *)
(***************************************************************************)
Limb == 1048576            \* 2^20
IntUnit == 65536           \* 2^16: the integer 1 in the high limb (2^56 / 2^40)
Mantissa == 53             \* significant bits of a float64

\* The element of a one-element set.  theOne({F(v) : v \in {x}}) is F(x) with
\* x evaluated once: v is a value, where an operator argument is evaluated
\* again each time the operator reads it.
theOne(S) == CHOOSE r \in S : TRUE

RECURSIVE Pow2(_)
Pow2(n) == IF n = 0 THEN 1 ELSE 2 * Pow2(n - 1)

RECURSIVE BitLen(_)
BitLen(n) == IF n = 0 THEN 0 ELSE 1 + BitLen(n \div 2)

\* number of significant bits of a magnitude
MagBits(m) ==
    IF m[1] > 0 THEN 40 + BitLen(m[1])
    ELSE IF m[2] > 0 THEN 20 + BitLen(m[2])
    ELSE BitLen(m[3])

\* propagate carries of a magnitude whose limbs may have reached 2^20
Carry(m) ==
    LET lo  == m[3] % Limb
        c1  == m[3] \div Limb
        mid == (m[2] + c1) % Limb
        c2  == (m[2] + c1) \div Limb
    IN  <<m[1] + c2, mid, lo>>

MagLess(a, b) ==
    \/ a[1] < b[1]
    \/ a[1] = b[1] /\ a[2] < b[2]
    \/ a[1] = b[1] /\ a[2] = b[2] /\ a[3] < b[3]

MagAdd(a, b) == Carry(<<a[1] + b[1], a[2] + b[2], a[3] + b[3]>>)

\* a - b for magnitudes with b <= a
MagSub(a, b) ==
    LET b3  == IF a[3] < b[3] THEN 1 ELSE 0
        lo  == a[3] + b3 * Limb - b[3]
        b2  == IF a[2] - b3 < b[2] THEN 1 ELSE 0
        mid == a[2] - b3 + b2 * Limb - b[2]
    IN  <<a[1] - b2 - b[1], mid, lo>>

\* Round an exact magnitude to 53 significant bits, ties to even.  rest tells
\* what lies below the last limb: 0 nothing, 1 less than half a unit, 2 exactly
\* half a unit, 3 more than half a unit.
Round53(m, rest) ==
    LET drop == IF MagBits(m) > Mantissa THEN MagBits(m) - Mantissa ELSE 0
        unit == Pow2(drop)
        low  == m[3] % unit
        kept == <<m[1], m[2], m[3] - low>>
        odd  == ((m[3] \div unit) % 2) = 1
        up   == IF drop = 0
                THEN rest = 3 \/ (rest = 2 /\ odd)
                ELSE \/ 2 * low > unit
                     \/ 2 * low = unit /\ (rest > 0 \/ odd)
    IN  IF up THEN Carry(<<kept[1], kept[2], kept[3] + unit>>) ELSE kept

FloatZero == [neg |-> FALSE, m |-> <<0, 0, 0>>]

\* float64(n) for an integer n, draw.go:238
float64(n) ==
    [neg |-> n < 0, m |-> <<(IF n < 0 THEN -n ELSE n) * IntUnit, 0, 0>>]

\* float64(p) / float64(q) for integers p and q # 0, draw.go:237
FloatDiv(p, q) ==
    LET ap == IF p < 0 THEN -p ELSE p
        aq == IF q < 0 THEN -q ELSE q
        n1 == ap * IntUnit
        q1 == n1 \div aq
        r1 == n1 % aq
        q2 == (r1 * Limb) \div aq
        r2 == (r1 * Limb) % aq
        q3 == (r2 * Limb) \div aq
        r3 == (r2 * Limb) % aq
        rest == IF r3 = 0 THEN 0
                ELSE IF 2 * r3 < aq THEN 1
                ELSE IF 2 * r3 = aq THEN 2 ELSE 3
    IN  [neg |-> (p < 0) # (q < 0) /\ p # 0, m |-> Round53(<<q1, q2, q3>>, rest)]

\* d + a in float64, draw.go:241
FloatAdd(d, a) ==
    IF d.neg = a.neg
    THEN [neg |-> d.neg, m |-> Round53(MagAdd(d.m, a.m), 0)]
    ELSE IF MagLess(d.m, a.m)
         THEN [neg |-> a.neg, m |-> Round53(MagSub(a.m, d.m), 0)]
         ELSE IF d.m = a.m
              THEN FloatZero
              ELSE [neg |-> d.neg, m |-> Round53(MagSub(d.m, a.m), 0)]

\* int(d): conversion of a float64 to int truncates toward zero, draw.go:240
FloatToInt(d) ==
    IF d.neg THEN -(d.m[1] \div IntUnit) ELSE d.m[1] \div IntUnit

(***************************************************************************)
(* interpolate, draw.go:235-244.  The loop appends int(d) and then adds a  *)
(* to d, once for each y of y0..y1; no value is produced when y1 < y0.     *)
(* When y1 = y0 the slope is a float division by zero (+Inf, -Inf or NaN,  *)
(* no panic), d is appended once before the slope is ever added, and the   *)
(* sum is never read.                                                      *)
(***************************************************************************)
\* The loop of draw.go:239-242 with n values still to append.
RECURSIVE interpolateLoop(_, _, _)
interpolateLoop(n, d, a) ==
    IF n = 0 THEN << >>
    ELSE IF n = 1 THEN <<FloatToInt(d)>>
    ELSE <<FloatToInt(d)>> \o
         theOne({interpolateLoop(n - 1, next, a) : next \in {FloatAdd(d, a)}})

interpolate(y0, x0, y1, x1) ==
    IF y1 < y0 THEN << >>
    ELSE IF y1 = y0 THEN <<FloatToInt(float64(x0))>>
    ELSE theOne({interpolateLoop(y1 - y0 + 1, float64(x0), a) :
                    a \in {FloatDiv(x1 - x0, y1 - y0)}})

(***************************************************************************)
(* Display, draw.go:70-130.  A Display value is a record of maxX, maxY and *)
(* matrix; matrix[r][c] is row r, column c, rows 0..maxY-1 and columns     *)
(* 0..maxX-1.  The zero Display has maxX = maxY = 0 and a nil matrix.      *)
(***************************************************************************)
NoError == "nil"
PixelOutOfBounds == "pixel out of bounds"
ColorUnknown == "color unknown"
GeometryOutOfBounds == "geometry out of bounds"
CircleOutOfBounds == "Circle: geometry out of bounds"
InvalidColor == "invalid color at pixel"
Panic == "panic"

\* make([][]Color, maxY), each row make([]Color, maxX) set to white
initialize(w, h) ==
    [maxX |-> w, maxY |-> h,
     matrix |-> [i \in 0 .. h - 1 |-> [j \in 0 .. w - 1 |-> white]]]

\* drawPixel without the colour lookup of draw.go:100-103
drawPixelAnyColor(d, x, y, c) ==
    IF y < 0 \/ x < 0 \/ y >= d.maxX \/ x >= d.maxY
    THEN [matrix |-> d.matrix, err |-> PixelOutOfBounds]
    ELSE [matrix |-> [d.matrix EXCEPT ![x][y] = c], err |-> NoError]

\* drawPixel without the exchange of x and y of draw.go:92-93
drawPixelUntransposed(d, x, y, c) ==
    IF x < 0 \/ y < 0 \/ x >= d.maxX \/ y >= d.maxY
    THEN [matrix |-> d.matrix, err |-> PixelOutOfBounds]
    ELSE IF c \notin colorMap
    THEN [matrix |-> d.matrix, err |-> ColorUnknown]
    ELSE [matrix |-> [d.matrix EXCEPT ![y][x] = c], err |-> NoError]

\* draw.go:89-108: the row is the x argument, the column the y argument
drawPixel(d, x, y, c) ==
    LET rotatedY == x
        rotatedX == y
    IN  IF rotatedX < 0 \/ rotatedY < 0 \/ rotatedX >= d.maxX \/ rotatedY >= d.maxY
        THEN [matrix |-> d.matrix, err |-> PixelOutOfBounds]
        ELSE IF c \notin colorMap
        THEN [matrix |-> d.matrix, err |-> ColorUnknown]
        ELSE [matrix |-> [d.matrix EXCEPT ![rotatedY][rotatedX] = c],
              err |-> NoError]

\* draw.go:111-116
getPixel(d, x, y) ==
    IF x < 0 \/ y < 0 \/ x >= d.maxX \/ y >= d.maxY
    THEN [color |-> 0, err |-> PixelOutOfBounds]
    ELSE [color |-> d.matrix[y][x], err |-> NoError]

\* draw.go:119-125
clearScreen(d) ==
    [i \in DOMAIN d.matrix |-> [j \in DOMAIN d.matrix[i] |-> white]]

\* draw.go:128-130
getMaxXY(d) == <<d.maxX, d.maxY>>

\* draw.go:147-152: the colour lookup of screenShot; the file writes are not
\* modelled.  The error of the first cell, in row-major order, whose value is
\* no key of colorMap; an index outside the matrix is a runtime panic.
screenShot(d) ==
    IF \E y \in 0 .. d.maxY - 1 : \E x \in 0 .. d.maxX - 1 :
           y \notin DOMAIN d.matrix \/ x \notin DOMAIN d.matrix[y]
    THEN Panic
    ELSE IF \E y \in 0 .. d.maxY - 1 : \E x \in 0 .. d.maxX - 1 :
                d.matrix[y][x] \notin colorMap
    THEN InvalidColor
    ELSE NoError

(***************************************************************************)
(* The pixel loop shared by the three draw methods: drawPixel is called    *)
(* for each element of pixels in order, and the first error returned ends  *)
(* the draw with that error (draw.go:183-186, 213-216, 289-291).  painted  *)
(* collects the <<x, y>> arguments of the calls that returned nil.         *)
(***************************************************************************)
RECURSIVE paint(_, _, _, _)
paint(d, pixels, c, done) ==
    IF pixels = << >>
    THEN [matrix |-> d.matrix, err |-> NoError, painted |-> done]
    ELSE theOne({
             IF r.err # NoError
             THEN [matrix |-> d.matrix, err |-> r.err, painted |-> done]
             ELSE theOne({paint(nd, rest, c, drawn) :
                             nd \in {[d EXCEPT !.matrix = r.matrix]},
                             rest \in {Tail(pixels)},
                             drawn \in {done \cup {Head(pixels)}}})
             : r \in {drawPixel(d, Head(pixels)[1], Head(pixels)[2], c)}})

\* <<x, y>> for x = lo..hi, ascending
RECURSIVE rowPixels(_, _, _)
rowPixels(lo, hi, y) ==
    IF lo > hi THEN << >> ELSE <<<<lo, y>>>> \o rowPixels(lo + 1, hi, y)

(***************************************************************************)
(* Rectangle.draw, draw.go:174-190.                                        *)
(***************************************************************************)
\* the rows of a Rectangle with the last row left out (y < UR.Y for y <= UR.Y)
RECURSIVE RectanglePixelsShort(_, _)
RectanglePixelsShort(r, y) ==
    IF y >= r.UR.Y THEN << >>
    ELSE rowPixels(r.LL.X, r.UR.X, y) \o RectanglePixelsShort(r, y + 1)

RECURSIVE RectanglePixels(_, _)
RectanglePixels(r, y) ==
    IF y > r.UR.Y THEN << >>
    ELSE rowPixels(r.LL.X, r.UR.X, y) \o RectanglePixels(r, y + 1)

\* Rectangle.draw without the bounds check of draw.go:177-179
RectangleDrawUnchecked(d, r) ==
    theOne({paint(d, pixels, r.C, {}) : pixels \in {RectanglePixels(r, r.LL.Y)}})

RectangleDraw(d, r) ==
    LET maxX == getMaxXY(d)[1]
        maxY == getMaxXY(d)[2]
    IN  IF r.LL.X < 0 \/ r.LL.Y < 0 \/ r.UR.X >= maxX \/ r.UR.Y >= maxY
        THEN [matrix |-> d.matrix, err |-> GeometryOutOfBounds, painted |-> {}]
        ELSE theOne({paint(d, pixels, r.C, {}) : pixels \in {RectanglePixels(r, r.LL.Y)}})

(***************************************************************************)
(* Circle.draw, draw.go:204-222.                                           *)
(***************************************************************************)
\* the row of a Circle with the boundary left out (< for <= in draw.go:212)
RECURSIVE CircleRowOpen(_, _, _)
CircleRowOpen(c, x, y) ==
    IF x > c.R THEN << >>
    ELSE (IF x * x + y * y < c.R * c.R
          THEN <<<<c.CP.X + x, c.CP.Y + y>>>> ELSE << >>)
         \o CircleRowOpen(c, x + 1, y)

RECURSIVE CircleRow(_, _, _)
CircleRow(c, x, y) ==
    IF x > c.R THEN << >>
    ELSE (IF x * x + y * y <= c.R * c.R
          THEN <<<<c.CP.X + x, c.CP.Y + y>>>> ELSE << >>)
         \o CircleRow(c, x + 1, y)

RECURSIVE CirclePixels(_, _)
CirclePixels(c, y) ==
    IF y > c.R THEN << >>
    ELSE CircleRow(c, -c.R, y) \o CirclePixels(c, y + 1)

CircleDraw(d, c) ==
    LET maxX == getMaxXY(d)[1]
        maxY == getMaxXY(d)[2]
    IN  IF c.CP.X - c.R < 0 \/ c.CP.X + c.R >= maxX
           \/ c.CP.Y - c.R < 0 \/ c.CP.Y + c.R >= maxY
        THEN [matrix |-> d.matrix, err |-> CircleOutOfBounds, painted |-> {}]
        ELSE theOne({paint(d, pixels, c.C, {}) : pixels \in {CirclePixels(c, -c.R)}})

(***************************************************************************)
(* Triangle.draw, draw.go:247-295.                                         *)
(***************************************************************************)
\* draw.go:254-265: the three conditional swaps of <<x0, y0, x1, y1, x2, y2>>
swap01(v) == IF v[4] < v[2] THEN <<v[3], v[4], v[1], v[2], v[5], v[6]>> ELSE v
swap02(v) == IF v[6] < v[2] THEN <<v[5], v[6], v[3], v[4], v[1], v[2]>> ELSE v
swap12(v) == IF v[6] < v[4] THEN <<v[1], v[2], v[5], v[6], v[3], v[4]>> ELSE v

\* draw.go:249-265: <<x0, y0, x1, y1, x2, y2>> after the swaps
sortVertices(t) ==
    theOne({theOne({theOne({swap12(c) : c \in {swap02(b)}}) : b \in {swap01(a)}}) :
               a \in {<<t.Pt0.X, t.Pt0.Y, t.Pt1.X, t.Pt1.Y, t.Pt2.X, t.Pt2.Y>>}})

\* draw.go:267-268
triangleOutOfBounds(d, v) ==
    LET maxX == getMaxXY(d)[1]
        maxY == getMaxXY(d)[2]
    IN  \/ v[1] < 0 \/ v[3] < 0 \/ v[5] < 0
        \/ v[2] < 0 \/ v[4] < 0 \/ v[6] < 0
        \/ v[1] >= maxX \/ v[3] >= maxX \/ v[5] >= maxX
        \/ v[2] >= maxY \/ v[4] >= maxY \/ v[6] >= maxY

\* draw.go:276-284: the two boundary sequences made of x01, x12 and x02.
\* ok is FALSE where the code would index a slice out of range (x12[1:] of
\* an empty x12, x02[m] or x012[m] with m beyond the end).
selectEdges(x01, x12, x02) ==
    LET x012 == x01 \o (IF Len(x12) >= 1 THEN Tail(x12) ELSE << >>)
        m    == Len(x012) \div 2
        ok   == Len(x12) >= 1 /\ m < Len(x02) /\ m < Len(x012)
    IN  IF ~ok
        THEN [ok |-> FALSE, x_left |-> x012, x_right |-> x02]
        ELSE IF x02[m + 1] < x012[m + 1]
        THEN [ok |-> TRUE, x_left |-> x02, x_right |-> x012]
        ELSE [ok |-> TRUE, x_left |-> x012, x_right |-> x02]

\* draw.go:273-284: the boundary sequences of the sorted vertices v
triangleEdges(v) ==
    theOne({selectEdges(x01, x12, x02) :
               x01 \in {interpolate(v[2], v[1], v[4], v[3])},
               x12 \in {interpolate(v[4], v[3], v[6], v[5])},
               x02 \in {interpolate(v[2], v[1], v[6], v[5])}})

\* draw.go:287-293: the pixels of rows y..last in loop order
RECURSIVE TrianglePixels(_, _, _, _)
TrianglePixels(v, e, y, last) ==
    IF y > last THEN << >>
    ELSE rowPixels(e.x_left[y - v[2] + 1], e.x_right[y - v[2] + 1], y)
         \o TrianglePixels(v, e, y + 1, last)

\* draw.go:287-293 for the sorted vertices v and their boundary sequences e.
\* Row y reads x_left[y-y0] and x_right[y-y0] before it paints anything, so
\* the rows whose index lies within both slices are painted and the first row
\* beyond either slice is an index out of range.
fillTriangle(d, v, e, c) ==
    LET rows == v[6] - v[2] + 1
        have == IF Len(e.x_left) < Len(e.x_right)
                THEN Len(e.x_left) ELSE Len(e.x_right)
        last == IF have < rows THEN v[2] + have - 1 ELSE v[6]
    IN  IF ~e.ok
        THEN [matrix |-> d.matrix, err |-> Panic, painted |-> {}]
        ELSE theOne({IF r.err = NoError /\ have < rows
                     THEN [r EXCEPT !.err = Panic] ELSE r :
                        r \in {theOne({paint(d, pixels, c, {}) :
                                  pixels \in {TrianglePixels(v, e, v[2], last)}})}})

TriangleDraw(d, t) ==
    theOne({IF triangleOutOfBounds(d, v)
            THEN [matrix |-> d.matrix, err |-> GeometryOutOfBounds, painted |-> {}]
            ELSE theOne({fillTriangle(d, v, e, t.C) : e \in {triangleEdges(v)}}) :
               v \in {sortVertices(t)}})

(***************************************************************************)
(* State: the Display (var display, draw.go:16) and, for the properties,   *)
(* the last call made on it: its name and arguments, the matrix it found,  *)
(* the error it returned and the pixels it drew.                           *)
(***************************************************************************)
VARIABLES maxX, maxY, matrix, call, before, err, painted, steps

vars == <<maxX, maxY, matrix, call, before, err, painted, steps>>

display == [maxX |-> maxX, maxY |-> maxY, matrix |-> matrix]

Point(x, y) == [X |-> x, Y |-> y]

\* colours passed to drawPixel and to the shapes: two enumeration colours
\* and the first value after the enumeration
PaintColors == {red, black, white + 1}

\* coordinates passed to the shapes: the grid and one step beyond each side
XCoord == -1 .. maxX
YCoord == -1 .. maxY

\* the zero value of Display
Init ==
    /\ maxX = 0
    /\ maxY = 0
    /\ matrix = [i \in {} |-> << >>]
    /\ call = [op |-> "none"]
    /\ before = [i \in {} |-> << >>]
    /\ err = NoError
    /\ painted = {}
    /\ steps = 0

Initialize(w, h) ==
    /\ \E d \in {initialize(w, h)} :
           maxX' = d.maxX /\ maxY' = d.maxY /\ matrix' = d.matrix
    /\ call' = [op |-> "initialize", w |-> w, h |-> h]
    /\ before' = matrix
    /\ err' = NoError
    /\ painted' = {}
    /\ steps' = steps + 1

DrawPixel(x, y, c) ==
    /\ \E r \in {drawPixel(display, x, y, c)} :
           matrix' = r.matrix /\ err' = r.err
    /\ call' = [op |-> "drawPixel", x |-> x, y |-> y, c |-> c]
    /\ before' = matrix
    /\ painted' = IF err' = NoError THEN {<<x, y>>} ELSE {}
    /\ steps' = steps + 1
    /\ UNCHANGED <<maxX, maxY>>

ClearScreen ==
    /\ matrix' = clearScreen(display)
    /\ call' = [op |-> "clearScreen"]
    /\ before' = matrix
    /\ err' = NoError
    /\ painted' = {}
    /\ steps' = steps + 1
    /\ UNCHANGED <<maxX, maxY>>

DrawRectangle(r) ==
    /\ \E res \in {RectangleDraw(display, r)} :
           matrix' = res.matrix /\ err' = res.err /\ painted' = res.painted
    /\ call' = [op |-> "Rectangle", r |-> r]
    /\ before' = matrix
    /\ steps' = steps + 1
    /\ UNCHANGED <<maxX, maxY>>

DrawCircle(c) ==
    /\ \E res \in {CircleDraw(display, c)} :
           matrix' = res.matrix /\ err' = res.err /\ painted' = res.painted
    /\ call' = [op |-> "Circle", c |-> c]
    /\ before' = matrix
    /\ steps' = steps + 1
    /\ UNCHANGED <<maxX, maxY>>

DrawTriangle(t) ==
    /\ \E res \in {TriangleDraw(display, t)} :
           matrix' = res.matrix /\ err' = res.err /\ painted' = res.painted
    /\ call' = [op |-> "Triangle", t |-> t]
    /\ before' = matrix
    /\ steps' = steps + 1
    /\ UNCHANGED <<maxX, maxY>>

\* one more call may be made in this session
more == steps < MaxSteps

Next ==
    \/ more /\ \E w \in 0 .. MaxDim : \E h \in 0 .. MaxDim : Initialize(w, h)
    \/ more /\ \E x \in -1 .. MaxDim : \E y \in -1 .. MaxDim : \E c \in PaintColors :
           DrawPixel(x, y, c)
    \/ more /\ ClearScreen
    \/ more /\ \E x1 \in XCoord : \E y1 \in YCoord : \E x2 \in XCoord : \E y2 \in YCoord :
       \E c \in PaintColors :
           DrawRectangle([LL |-> Point(x1, y1), UR |-> Point(x2, y2), C |-> c])
    \/ more /\ \E x \in XCoord : \E y \in YCoord : \E r \in -1 .. MaxR : \E c \in PaintColors :
           DrawCircle([CP |-> Point(x, y), R |-> r, C |-> c])
    \/ more /\ \E x0 \in XCoord : \E y0 \in YCoord : \E x1 \in XCoord : \E y1 \in YCoord :
       \E x2 \in XCoord : \E y2 \in YCoord : \E c \in {red, white + 1} :
           DrawTriangle([Pt0 |-> Point(x0, y0), Pt1 |-> Point(x1, y1),
                         Pt2 |-> Point(x2, y2), C |-> c])

Spec == Init /\ [][Next]_vars

(***************************************************************************)
(* A second specification: one call on a Display that is already in use.   *)
(* The Display was initialised to w x h and is either still white or has   *)
(* had every cell painted by drawPixel calls, cell (row i, column j) with  *)
(* colour (i + j) % white, one of red .. black.                            *)
(***************************************************************************)
stripes(w, h) == [i \in 0 .. h - 1 |-> [j \in 0 .. w - 1 |-> (i + j) % white]]

InitPainted ==
    /\ maxX \in 0 .. MaxDim
    /\ maxY \in 0 .. MaxDim
    /\ matrix \in {initialize(maxX, maxY).matrix, stripes(maxX, maxY)}
    /\ call = [op |-> "none"]
    /\ before = matrix
    /\ err = NoError
    /\ painted = {}
    /\ steps = MaxSteps - 1

SpecPainted == InitPainted /\ [][Next]_vars


(***************************************************************************)
(* Properties.  Each is about the last call: its arguments are in call,    *)
(* the matrix it found is before, and err and painted are its results.     *)
(***************************************************************************)
Rows == 0 .. maxY - 1
Cols == 0 .. maxX - 1

isShape == call.op \in {"Rectangle", "Circle", "Triangle"}

\* m with the cells of S, given as <<row, column>>, set to c
overwrite(m, S, c) ==
    [i \in DOMAIN m |-> [j \in DOMAIN m[i] |-> IF <<i, j>> \in S THEN c ELSE m[i][j]]]

someCellNotWhite(m) == \E i \in DOMAIN m : \E j \in DOMAIN m[i] : m[i][j] # white

\* the shape-level extents as the claims state them
rectangleExceeds(r) ==
    r.LL.X < 0 \/ r.LL.Y < 0 \/ r.UR.X >= maxX \/ r.UR.Y >= maxY

circleExceeds(c) ==
    ~ /\ 0 <= c.CP.X - c.R /\ c.CP.X + c.R < maxX
      /\ 0 <= c.CP.Y - c.R /\ c.CP.Y + c.R < maxY

vertexOutside(p) == ~(0 <= p.X /\ p.X < maxX /\ 0 <= p.Y /\ p.Y < maxY)

triangleExceeds(t) ==
    vertexOutside(t.Pt0) \/ vertexOutside(t.Pt1) \/ vertexOutside(t.Pt2)

shapeExceeds ==
    \/ call.op = "Rectangle" /\ rectangleExceeds(call.r)
    \/ call.op = "Circle" /\ circleExceeds(call.c)
    \/ call.op = "Triangle" /\ triangleExceeds(call.t)

shapeColor ==
    IF call.op = "Rectangle" THEN call.r.C
    ELSE IF call.op = "Circle" THEN call.c.C ELSE call.t.C

\* C1 (grid invariant): the grid has maxY rows of maxX cells, every cell
\* holds one of the nine enumeration colours, so screenShot never returns its
\* invalid-colour error; and right after initialize(w, h) getMaxXY is (w, h)
\* and getPixel reads white at every 0 <= x < w, 0 <= y < h.
C1_GridInvariant ==
    /\ DOMAIN matrix = Rows
    /\ \A i \in Rows : DOMAIN matrix[i] = Cols
    /\ \A i \in Rows : \A j \in Cols : matrix[i][j] \in colorMap
    /\ screenShot(display) = NoError
    /\ call.op = "initialize" =>
           /\ getMaxXY(display) = <<call.w, call.h>>
           /\ \A x \in 0 .. call.w - 1 : \A y \in 0 .. call.h - 1 :
                  getPixel(display, x, y) = [color |-> white, err |-> NoError]

\* a colour outside the enumeration was offered to a cell of the grid
C1_Witness ==
    /\ call.op = "drawPixel"
    /\ call.c \notin colorMap
    /\ 0 <= call.x /\ call.x < maxY /\ 0 <= call.y /\ call.y < maxX
    /\ err = ColorUnknown

\* C2 (drawPixel's contract): drawPixel(x, y, c) returns nil exactly when
\* 0 <= x < maxY, 0 <= y < maxX and c is an enumeration colour; then the cell
\* of row x, column y holds c, getPixel(y, x) returns c and every other cell
\* is as before; otherwise the grid is as before and the error is the
\* out-of-bounds one for a bad coordinate, the unknown-colour one for a bad
\* colour.
C2_DrawPixelContract ==
    call.op = "drawPixel" =>
        LET inGrid == 0 <= call.x /\ call.x < maxY /\ 0 <= call.y /\ call.y < maxX
            ok     == inGrid /\ call.c \in colorMap
        IN  /\ (err = NoError) <=> ok
            /\ ok => /\ matrix[call.x][call.y] = call.c
                     /\ getPixel(display, call.y, call.x)
                            = [color |-> call.c, err |-> NoError]
                     /\ \A i \in Rows : \A j \in Cols :
                            <<i, j>> # <<call.x, call.y>> => matrix[i][j] = before[i][j]
            /\ ~ok => /\ matrix = before
                      /\ err = IF inGrid THEN ColorUnknown ELSE PixelOutOfBounds

\* a pixel was drawn on a painted grid that is wider than high
C2_Witness ==
    /\ call.op = "drawPixel"
    /\ err = NoError
    /\ maxX > maxY
    /\ matrix # before
    /\ someCellNotWhite(before)

\* C3 (atomic rejection): a Rectangle, Circle or Triangle whose extent
\* exceeds the grid makes draw return an error and leaves every cell as it
\* was.
C3_AtomicRejection ==
    shapeExceeds => err # NoError /\ matrix = before /\ painted = {}

\* a Triangle with a vertex outside a painted grid was rejected
C3_Witness ==
    /\ call.op = "Triangle"
    /\ triangleExceeds(call.t)
    /\ ~vertexOutside(call.t.Pt0)
    /\ err = GeometryOutOfBounds
    /\ someCellNotWhite(matrix)

\* C4 (per-pixel check unreachable): a shape with an enumeration colour whose
\* shape-level bounds check passes is drawn without any drawPixel call
\* returning the out-of-bounds error, so draw returns nil.
C4_PixelCheckUnreachable ==
    isShape /\ shapeColor \in colorMap /\ ~shapeExceeds => err = NoError

\* the cells a Rectangle addresses through drawPixel
rectangleCells(r) ==
    {<<x, y>> : x \in r.LL.X .. r.UR.X, y \in r.LL.Y .. r.UR.Y}

rectangleDegenerate(r) == r.UR.X < r.LL.X \/ r.UR.Y < r.LL.Y

\* the fill of a Rectangle drawn with success is exact
rectangleFillExact ==
    call.op = "Rectangle" /\ call.r.C \in colorMap /\ err = NoError =>
        /\ matrix = overwrite(before, rectangleCells(call.r), call.r.C)
        /\ painted = rectangleCells(call.r)
        /\ \A p \in rectangleCells(call.r) :
               getPixel(display, p[2], p[1]) = [color |-> call.r.C, err |-> NoError]

\* C5 as stated: the fill is exact, and a Rectangle whose UR is below or
\* left of its LL paints nothing and returns nil.
C5_Original ==
    /\ rectangleFillExact
    /\ call.op = "Rectangle" /\ call.r.C \in colorMap /\ rectangleDegenerate(call.r) =>
           err = NoError /\ matrix = before /\ painted = {}

\* C5 (rectangle fill exactness, amended): the fill of a Rectangle drawn
\* with success is exact; a Rectangle whose UR is below or left of its LL
\* paints nothing, and returns nil when its bounds check passes and the
\* out-of-bounds error when it does not.
C5_RectangleFill ==
    /\ rectangleFillExact
    /\ call.op = "Rectangle" /\ call.r.C \in colorMap /\ rectangleDegenerate(call.r) =>
           /\ matrix = before
           /\ painted = {}
           /\ err = IF rectangleExceeds(call.r) THEN GeometryOutOfBounds ELSE NoError

\* a Rectangle of at least two rows and two columns was filled on a painted
\* grid and left some painted cell alone
C5_Witness ==
    /\ call.op = "Rectangle"
    /\ err = NoError
    /\ call.r.UR.X > call.r.LL.X
    /\ call.r.UR.Y > call.r.LL.Y
    /\ matrix # before
    /\ \E i \in Rows : \E j \in Cols :
           <<i, j>> \notin painted /\ matrix[i][j] \notin {white, call.r.C}

\* the offsets of the inclusive disk of radius R
disk(R) ==
    {o \in (-R - 1 .. R + 1) \X (-R - 1 .. R + 1) : o[1] * o[1] + o[2] * o[2] <= R * R}

\* C6 (circle disk membership): after a Circle of radius R >= 0 and an
\* enumeration colour is drawn with success, the cell addressed by
\* (CP.X + dx, CP.Y + dy) holds the colour iff dx*dx + dy*dy <= R*R, (R, 0) is
\* painted, (R, R) is not when R >= 1, and every other cell is as before.
C6_CircleDisk ==
    call.op = "Circle" /\ call.c.R >= 0 /\ call.c.C \in colorMap /\ err = NoError =>
        LET c     == call.c
            cells == {<<c.CP.X + o[1], c.CP.Y + o[2]>> : o \in disk(c.R)}
        IN  /\ painted = cells
            /\ matrix = overwrite(before, cells, c.C)
            /\ \A i \in Rows : \A j \in Cols :
                   matrix[i][j] =
                       IF (i - c.CP.X) * (i - c.CP.X) + (j - c.CP.Y) * (j - c.CP.Y)
                              <= c.R * c.R
                       THEN c.C ELSE before[i][j]
            /\ <<c.CP.X + c.R, c.CP.Y>> \in painted
            /\ c.R >= 1 => <<c.CP.X + c.R, c.CP.Y + c.R>> \notin painted

\* a Circle of radius at least 2 was filled on a painted grid
C6_Witness ==
    /\ call.op = "Circle"
    /\ call.c.R >= 2
    /\ err = NoError
    /\ matrix # before
    /\ someCellNotWhite(before)

\* the x of the pixels the last draw painted in row y
run(y) == {p[1] : p \in {q \in painted : q[2] = y}}

\* C7 (right-triangle coverage): after the triangle (0,0), (n,0), (0,n),
\* n >= 1, is drawn on a white square grid larger than n, every row y of 0..n
\* has a contiguous painted run that starts at x = 0, and the run gets
\* strictly shorter from each row to the next.
C7_RightTriangle ==
    \A n \in 1 .. MaxDim :
        /\ call.op = "Triangle"
        /\ call.t = [Pt0 |-> Point(0, 0), Pt1 |-> Point(n, 0), Pt2 |-> Point(0, n),
                     C |-> call.t.C]
        /\ call.t.C \in colorMap
        /\ maxX = maxY /\ maxX > n
        /\ ~someCellNotWhite(before)
        => /\ err = NoError
           /\ \A y \in 0 .. n : run(y) # {} /\ run(y) = 0 .. Cardinality(run(y)) - 1
           /\ \A y \in 0 .. n - 1 : Cardinality(run(y)) > Cardinality(run(y + 1))

\* the sorted vertices and the boundary sequences of the last Triangle
sorted == sortVertices(call.t)
edges == triangleEdges(sorted)
triangleInBounds == call.op = "Triangle" /\ ~triangleExceeds(call.t)

\* C8 (left/right selection): for a Triangle whose vertices pass the bounds
\* check, left[k] <= right[k] in every row k of y0..y2; and when it is drawn
\* with success every row of y0..y2 has a painted pixel and the three
\* vertices are painted.
C8_LeftRight ==
    triangleInBounds =>
        /\ \A k \in 1 .. sorted[6] - sorted[2] + 1 : edges.x_left[k] <= edges.x_right[k]
        /\ err = NoError =>
               /\ \A y \in sorted[2] .. sorted[6] : run(y) # {}
               /\ {<<call.t.Pt0.X, call.t.Pt0.Y>>, <<call.t.Pt1.X, call.t.Pt1.Y>>,
                   <<call.t.Pt2.X, call.t.Pt2.Y>>} \subseteq painted

minOf(S) == CHOOSE a \in S : \A b \in S : a <= b
maxOf(S) == CHOOSE a \in S : \A b \in S : b <= a

\* C9 (degenerate-triangle safety): for a Triangle whose vertices pass the
\* bounds check, interpolate over [ya, yb] returns yb - ya + 1 values, the
\* first of them xa; both boundary sequences have y2 - y0 + 1 values; no
\* index is out of range; and every painted pixel has y in [y0, y2] and x
\* between the smallest and the largest vertex X.
C9_DegenerateSafe ==
    triangleInBounds =>
        LET v   == sorted
            x01 == interpolate(v[2], v[1], v[4], v[3])
            x12 == interpolate(v[4], v[3], v[6], v[5])
            x02 == interpolate(v[2], v[1], v[6], v[5])
            xs  == {v[1], v[3], v[5]}
        IN  /\ Len(x01) = v[4] - v[2] + 1 /\ x01[1] = v[1]
            /\ Len(x12) = v[6] - v[4] + 1 /\ x12[1] = v[3]
            /\ Len(x02) = v[6] - v[2] + 1 /\ x02[1] = v[1]
            /\ Len(edges.x_left) = v[6] - v[2] + 1
            /\ Len(edges.x_right) = v[6] - v[2] + 1
            /\ edges.ok
            /\ err # Panic
            /\ \A p \in painted :
                   /\ v[2] <= p[2] /\ p[2] <= v[6]
                   /\ minOf(xs) <= p[1] /\ p[1] <= maxOf(xs)

\* the six orders of the vertices of t
orders(t) ==
    {[Pt0 |-> q[1], Pt1 |-> q[2], Pt2 |-> q[3], C |-> t.C] :
        q \in {<<t.Pt0, t.Pt1, t.Pt2>>, <<t.Pt0, t.Pt2, t.Pt1>>,
               <<t.Pt1, t.Pt0, t.Pt2>>, <<t.Pt1, t.Pt2, t.Pt0>>,
               <<t.Pt2, t.Pt0, t.Pt1>>, <<t.Pt2, t.Pt1, t.Pt0>>}}

\* C10 (vertex-order independence): a Triangle with in-bounds vertices
\* paints the same pixels on the same grid in each of the six orders of its
\* vertices.
C10_OrderIndependent ==
    triangleInBounds =>
        \A t \in orders(call.t) :
            LET r == TriangleDraw([maxX |-> maxX, maxY |-> maxY, matrix |-> before], t)
            IN  r.matrix = matrix /\ r.painted = painted /\ r.err = err

====
